---- MODULE Spec2Model ----
(***************************************************************************)
(* Model of attendance_transfer.py: the attendance calculator, the roster  *)
(* indexer (read_template_file), the two-phase reconciler                  *)
(* (update_attendance_data), the selective writer (save_updated_template)  *)
(* and the way main() strings them together and aborts.                    *)
(*                                                                         *)
(* Cell values are records [k, v]: k is the Python type of the value and   *)
(* v the text that str() is built from.                                    *)
(*   "str"    a text cell / a Python str                                   *)
(*   "float"  a number as xlrd returns it (always a float)                 *)
(*   "int"    a Python int (pandas turns integral Excel numbers into int   *)
(*            in an object column; calculate_attendance returns ints)      *)
(*   "empty"  an empty xlrd cell (value '')                                *)
(*   "nan"    a missing value of the DataFrame                             *)
(***************************************************************************)
EXTENDS Integers, Sequences, FiniteSets, TLC

VARIABLES
    pc,             \* position of main(): "read", "phaseA", "save", "done", "abort"
                    \* (calculator harness: "calc", "calc_done")
    sheet,          \* the template .xls as xlrd sees it (row -> col -> cell)
    args,           \* parse_arguments(): [start |-> [h, m], duration]
    template_df,    \* DataFrame returned by read_template_file
    date_columns,   \* DateColumnMap returned by read_template_file
    updated_df,     \* the copy update_attendance_data works on
    dates_in_forms, \* forms_df['date'].unique(), in order of first appearance
    after_a,        \* history: updated_df as Phase A left it
    latest,         \* history: last completion time consumed per (student id, date label)
    out,            \* the line printed by the last step
    written,        \* cells save_updated_template passed to ws.write
    output,         \* content of the saved workbook
    exit_code,      \* process exit status
    calc_in,        \* calculator harness: [t, start, duration]
    calc_out        \* calculator harness: result of calculate_attendance

vars == <<pc, sheet, args, template_df, date_columns, updated_df, dates_in_forms,
          after_a, latest, out, written, output, exit_code, calc_in, calc_out>>

-----------------------------------------------------------------------------
(* Bounds of the model and constants of the program *)

NStudents == 2          \* roster rows below the header
NCols == 6              \* columns of the template sheet
DATE_ROW == 3           \* df.iloc[3]
SUBHEADER_ROW == 4      \* df.iloc[4]
FIRST_STUDENT_ROW == 5  \* range(5, len(updated_df))
ID_COL == 0             \* updated_df.iloc[row_idx, 0]
SECONDS_PER_MINUTE == 60
MINUTES_PER_HOUR == 60

NaN == [k |-> "nan", v |-> ""]
Empty == [k |-> "empty", v |-> ""]
Text(s) == [k |-> "str", v |-> s]
XlNumber(n) == [k |-> "float", v |-> ToString(n)]
PyInt(n) == [k |-> "int", v |-> ToString(n)]
SENTINEL == Text("--")

NRows(df) == Cardinality(DOMAIN df)
Cols == 0 .. (NCols - 1)

-----------------------------------------------------------------------------
(* convert_date_format: datetime -> "D/M" without leading zeros *)

convert_date_format(date_obj) ==
    ToString(date_obj.day) \o "/" \o ToString(date_obj.month)

\* The class days of the form export ('Start time' column).
StartDays == {[day |-> 26, month |-> 11], [day |-> 3, month |-> 12]}
DateLabels == {convert_date_format(d) : d \in StartDays}

\* '/' in date_val, for the texts this model puts in a sheet: the date labels
\* are the only ones that hold a slash.
HasSlash(s) == s \in DateLabels

-----------------------------------------------------------------------------
(* calculate_attendance *)

\* Variant: the minutes late are rounded to the nearest minute.
calculate_attendance_rounded(completion_time, start, duration_minutes) ==
    LET class_start == (start.h * MINUTES_PER_HOUR + start.m) * SECONDS_PER_MINUTE
        class_end == class_start + duration_minutes * SECONDS_PER_MINUTE
        minutes_late == (completion_time - class_start + 30) \div SECONDS_PER_MINUTE
    IN  IF completion_time <= class_start THEN <<"Y", duration_minutes>>
        ELSE IF completion_time >= class_end THEN <<"N", 0>>
        ELSE <<"Y", duration_minutes - minutes_late>>

\* completion_time and class_start are seconds since midnight of the
\* completion date; start is the parsed "HH:MM".
calculate_attendance(completion_time, start, duration_minutes) ==
    LET class_start == (start.h * MINUTES_PER_HOUR + start.m) * SECONDS_PER_MINUTE
        class_end == class_start + duration_minutes * SECONDS_PER_MINUTE
        \* int((completion_time - class_start).total_seconds() / 60)
        minutes_late == (completion_time - class_start) \div SECONDS_PER_MINUTE
    IN  IF completion_time <= class_start THEN <<"Y", duration_minutes>>
        ELSE IF completion_time >= class_end THEN <<"N", 0>>
        ELSE <<"Y", duration_minutes - minutes_late>>

-----------------------------------------------------------------------------
(* The template sheets the runs start from *)

\* The layout read_template_file documents: row 3 holds the date labels,
\* row 4 the sub-headers Code and Minutes, rows 5 and up the students.
\* Columns: 0 identifier, 1 name, then (Code, Minutes) pairs, a date label
\* standing over the Code column of its pair; a trailing column that starts
\* no full pair is a plain text column.
PairStarts == {c \in 2 .. (NCols - 2) : c % 2 = 0}
CodeCols == PairStarts
MinutesCols == {c + 1 : c \in PairStarts}
AttendanceCols == CodeCols \cup MinutesCols
StudentRows == FIRST_STUDENT_ROW .. (FIRST_STUDENT_ROW + NStudents - 1)

TitleRow == [c \in Cols |-> IF c = ID_COL THEN Text("Attendance") ELSE Empty]
SubheaderRowCells ==
    [c \in Cols |-> IF c = ID_COL THEN Text("ID")
                    ELSE IF c \in CodeCols THEN Text("Code")
                    ELSE IF c \in MinutesCols THEN Text("Minutes")
                    ELSE Text("Name")]
\* Row 3: a date label, or nothing, over each (Code, Minutes) pair.
DateRows ==
    {[c \in Cols |-> IF c = ID_COL THEN Text("Student")
                     ELSE IF c \in PairStarts THEN lab[c] ELSE Empty] :
        lab \in [PairStarts -> {Empty} \cup {Text(d) : d \in DateLabels}]}

\* Column 0 of a roster row: a numeric identifier, a blank, or a text.
IdCells == {XlNumber(1), XlNumber(2), Empty, Text("Total")}
\* A roster row that was never evaluated holds the sentinel in every
\* attendance cell; an evaluated cell holds a code or a number of minutes.
Prefilled(c) == IF c \in CodeCols THEN Text("Y") ELSE XlNumber(90)
StudentRow(id, pre) ==
    [c \in Cols |-> IF c = ID_COL THEN id
                    ELSE IF c \in AttendanceCols
                         THEN (IF c \in pre THEN Prefilled(c) ELSE SENTINEL)
                    ELSE Text("name")]
\* At most one attendance cell of the roster is already evaluated.
PrefilledChoices ==
    {[r \in StudentRows |-> {}]} \cup
    {[r \in StudentRows |-> IF r = r0 THEN {c0} ELSE {}] :
        r0 \in StudentRows, c0 \in AttendanceCols}

FullSheets ==
    {[r \in 0 .. (FIRST_STUDENT_ROW + NStudents - 1) |->
        IF r = DATE_ROW THEN dr
        ELSE IF r = SUBHEADER_ROW THEN SubheaderRowCells
        ELSE IF r \in StudentRows THEN StudentRow(ids[r], pre[r])
        ELSE TitleRow] :
        dr \in DateRows, ids \in [StudentRows -> IdCells], pre \in PrefilledChoices}

\* Sheets that stop before the header rows: 3 rows (no row 3) and 4 rows
\* (a date row but no row 4).
ShortSheets ==
    {[r \in 0 .. (DATE_ROW - 1) |-> TitleRow]} \cup
    {[r \in 0 .. DATE_ROW |-> IF r = DATE_ROW THEN dr ELSE TitleRow] : dr \in DateRows}

Sheets == FullSheets \cup ShortSheets

-----------------------------------------------------------------------------
(* pd.read_excel(filename, header=None) *)

\* Every column of the modelled sheets holds a text, so every column of the
\* frame is an object column: texts stay, empty cells become NaN, and an
\* integral Excel number, which xlrd gives as a float, becomes a Python int.
parse_cell(cell) ==
    IF cell.k = "empty" THEN NaN
    ELSE IF cell.k = "float" THEN [k |-> "int", v |-> cell.v]
    ELSE cell

read_excel(sh) == [r \in DOMAIN sh |-> [c \in Cols |-> parse_cell(sh[r][c])]]

-----------------------------------------------------------------------------
(* read_template_file *)

\* Variant: every text of row 3 is taken for a date label.
IsDateCellAnyText(date_val) == date_val.k = "str"

\* pd.notna(date_val) and isinstance(date_val, str) and '/' in date_val
IsDateCell(date_val) == date_val.k = "str" /\ HasSlash(date_val.v)

\* for col_idx, date_val in enumerate(date_row): a later column replaces an
\* earlier entry of the same label.
RECURSIVE ScanDateRow(_, _, _)
ScanDateRow(date_row, col_idx, acc) ==
    IF col_idx >= NCols THEN acc
    ELSE LET date_val == date_row[col_idx]
             entry == [code_col |-> col_idx, minutes_col |-> col_idx + 1]
         IN  ScanDateRow(date_row, col_idx + 1,
                         IF IsDateCell(date_val)
                         THEN (date_val.v :> entry) @@ acc
                         ELSE acc)

EmptyMap == [d \in {} |-> 0]

\* df.iloc[3] and df.iloc[4] raise IndexError on a frame without those rows;
\* the except clause prints and re-raises.
TemplateReadable(df) == DATE_ROW \in DOMAIN df /\ SUBHEADER_ROW \in DOMAIN df

build_date_columns(df) == ScanDateRow(df[DATE_ROW], 0, EmptyMap)

-----------------------------------------------------------------------------
(* update_attendance_data, Phase A: one form record *)

\* The records of forms_df: student_id is the digit string that
\* extract_student_id kept, start the day of 'Start time', completion the
\* 'Completion time' in seconds since midnight of its own day.
FormStudentIds == {<<1>>, <<0, 1>>}
\* 13:15:30 (during the class) and 16:30:00 (after it).
FormTimes == {13 * 3600 + 15 * 60 + 30, 16 * 3600 + 30 * 60}
FormRecords == [student_id : FormStudentIds, start : StartDays, completion : FormTimes]

\* The arguments of the pipeline runs: -s 13:00 -d 180.
PipelineArgs == {[start |-> [h |-> 13, m |-> 0], duration |-> 180]}

RECURSIVE DigitsToInt(_)
DigitsToInt(digits) ==
    IF digits = <<>> THEN 0
    ELSE 10 * DigitsToInt(SubSeq(digits, 1, Len(digits) - 1)) + digits[Len(digits)]

\* str(int(float(form_row['student_id'])))
form_student_id(digits) == ToString(DigitsToInt(digits))

NOT_FOUND == -1
VALUE_ERROR == -2

\* Variant: the scan has no break, so the last matching row wins.
RECURSIVE FindStudentRowLast(_, _, _)
FindStudentRowLast(df, row_idx, student_id) ==
    IF row_idx >= NRows(df) THEN NOT_FOUND
    ELSE LET cell == df[row_idx][ID_COL]
             rest == FindStudentRowLast(df, row_idx + 1, student_id)
         IN  IF cell.k = "nan" THEN rest
             ELSE IF cell.k = "str" THEN VALUE_ERROR
             ELSE IF rest # NOT_FOUND THEN rest
             ELSE IF cell.v = student_id THEN row_idx
             ELSE NOT_FOUND

\* for row_idx in range(5, len(updated_df)): the first row whose identifier
\* equals student_id.  A blank cell gives None and never matches; int() of a
\* non-numeric text raises ValueError.
RECURSIVE FindStudentRow(_, _, _)
FindStudentRow(df, row_idx, student_id) ==
    IF row_idx >= NRows(df) THEN NOT_FOUND
    ELSE LET cell == df[row_idx][ID_COL]
         IN  IF cell.k = "nan" THEN FindStudentRow(df, row_idx + 1, student_id)
             ELSE IF cell.k = "str" THEN VALUE_ERROR
             ELSE IF cell.v = student_id THEN row_idx
             ELSE FindStudentRow(df, row_idx + 1, student_id)

SetCell(df, row_idx, col_idx, value) == [df EXCEPT ![row_idx][col_idx] = value]

\* updated_df.iloc[row_idx, code_col] = code; updated_df.iloc[row_idx, minutes_col] = minutes
WriteAttendance(df, row_idx, cols, code, minutes) ==
    SetCell(SetCell(df, row_idx, cols.code_col, Text(code)),
            row_idx, cols.minutes_col, PyInt(minutes))

\* forms_df['date'].unique(): labels in order of first appearance.
AddDate(dates, date) ==
    IF \E i \in 1 .. Len(dates) : dates[i] = date THEN dates ELSE Append(dates, date)

\* latest[key] is <<>> before any record of the key, then <<completion>>.
NoTime == <<>>
LatestKeys == {form_student_id(s) : s \in FormStudentIds} \X DateLabels

-----------------------------------------------------------------------------
(* update_attendance_data, Phase B *)

\* Variant: the absent code is written, the minutes are left alone.
RECURSIVE MarkAbsentRowsCodeOnly(_, _, _)
MarkAbsentRowsCodeOnly(df, row_idx, cols) ==
    IF row_idx >= NRows(df) THEN df
    ELSE IF df[row_idx][cols.code_col] = SENTINEL
         THEN MarkAbsentRowsCodeOnly(SetCell(df, row_idx, cols.code_col, Text("N")),
                                     row_idx + 1, cols)
         ELSE MarkAbsentRowsCodeOnly(df, row_idx + 1, cols)

\* Variant: the scan stops at the first row it marks, as the Phase A scan
\* stops at its first match.
RECURSIVE MarkAbsentRowsBreak(_, _, _)
MarkAbsentRowsBreak(df, row_idx, cols) ==
    IF row_idx >= NRows(df) THEN df
    ELSE IF df[row_idx][cols.code_col] = SENTINEL
         THEN WriteAttendance(df, row_idx, cols, "N", 0)
         ELSE MarkAbsentRowsBreak(df, row_idx + 1, cols)

\* Variant: every row is marked absent, whatever its code cell holds.
RECURSIVE MarkAbsentRowsAll(_, _, _)
MarkAbsentRowsAll(df, row_idx, cols) ==
    IF row_idx >= NRows(df) THEN df
    ELSE MarkAbsentRowsAll(WriteAttendance(df, row_idx, cols, "N", 0), row_idx + 1, cols)

\* for row_idx in range(5, len(updated_df)): if current_code == '--'
RECURSIVE MarkAbsentRows(_, _, _)
MarkAbsentRows(df, row_idx, cols) ==
    IF row_idx >= NRows(df) THEN df
    ELSE IF df[row_idx][cols.code_col] = SENTINEL
         THEN MarkAbsentRows(WriteAttendance(df, row_idx, cols, "N", 0), row_idx + 1, cols)
         ELSE MarkAbsentRows(df, row_idx + 1, cols)

\* Variant: only the first date of the forms is marked.
MarkAbsentFirstDate(df, dates, columns) ==
    IF dates = <<>> \/ Head(dates) \notin DOMAIN columns THEN df
    ELSE MarkAbsentRows(df, FIRST_STUDENT_ROW, columns[Head(dates)])

\* Variant: every date of the template is marked, in the forms or not.
RECURSIVE MarkAbsentEveryColumn(_, _)
MarkAbsentEveryColumn(df, todo) ==
    IF todo = {} THEN df
    ELSE LET c == CHOOSE x \in todo : TRUE
         IN  MarkAbsentEveryColumn(
                 MarkAbsentRows(df, FIRST_STUDENT_ROW,
                                [code_col |-> c, minutes_col |-> c + 1]),
                 todo \ {c})
MarkAbsentAllDates(df, dates, columns) ==
    MarkAbsentEveryColumn(df, {columns[d].code_col : d \in DOMAIN columns})

\* for date in dates_in_forms: if date not in date_columns: continue
RECURSIVE MarkAbsent(_, _, _)
MarkAbsent(df, dates, columns) ==
    IF dates = <<>> THEN df
    ELSE LET date == Head(dates)
         IN  IF date \notin DOMAIN columns
             THEN MarkAbsent(df, Tail(dates), columns)
             ELSE MarkAbsent(MarkAbsentRows(df, FIRST_STUDENT_ROW, columns[date]),
                             Tail(dates), columns)

-----------------------------------------------------------------------------
(* save_updated_template *)

\* str(value); '' for an empty cell
Str(value) ==
    IF value.k = "float" THEN value.v \o ".0"
    ELSE value.v

InSheet(sh, row_idx, col_idx) == row_idx \in DOMAIN sh /\ col_idx \in DOMAIN sh[row_idx]

\* The cell reaches ws.write.
NeedsWrite(sh, df, row_idx, col_idx) ==
    LET updated_value == df[row_idx][col_idx]
    IN  /\ updated_value.k # "nan"
        /\ \/ ~InSheet(sh, row_idx, col_idx)
           \/ Str(sh[row_idx][col_idx]) # Str(updated_value)

\* ws.write(row, col, updated_value) for an int or a float, else str(updated_value)
WrittenCell(updated_value) ==
    IF updated_value.k \in {"int", "float"}
    THEN [k |-> "float", v |-> updated_value.v]
    ELSE Text(Str(updated_value))

WrittenCells(sh, df) ==
    {rc \in (DOMAIN df) \X Cols : NeedsWrite(sh, df, rc[1], rc[2])}

SavedSheet(sh, df) ==
    [r \in DOMAIN df |-> [c \in Cols |->
        IF <<r, c>> \in WrittenCells(sh, df) THEN WrittenCell(df[r][c]) ELSE sh[r][c]]]

-----------------------------------------------------------------------------
(* main *)

NoTable == <<>>
NoResult == <<"", -1>>
NoCalc == [t |-> 0, start |-> [h |-> 0, m |-> 0], duration |-> 0]

Init ==
    /\ pc = "read"
    /\ sheet \in Sheets
    /\ args \in PipelineArgs
    /\ template_df = NoTable
    /\ date_columns = EmptyMap
    /\ updated_df = NoTable
    /\ dates_in_forms = <<>>
    /\ after_a = NoTable
    /\ latest = [key \in LatestKeys |-> NoTime]
    /\ out = ""
    /\ written = {}
    /\ output = NoTable
    /\ exit_code = -1
    /\ calc_in = NoCalc
    /\ calc_out = NoResult

\* read_template_file, then the copy update_attendance_data starts from; an
\* exception reaches main's handler, which exits with status 1.
ReadTemplate ==
    /\ pc = "read"
    /\ LET df == read_excel(sheet)
       IN  IF TemplateReadable(df)
           THEN /\ template_df' = df
                /\ date_columns' = build_date_columns(df)
                /\ updated_df' = df
                /\ pc' = "phaseA"
                /\ out' = "found_dates"
                /\ UNCHANGED exit_code
           ELSE /\ pc' = "abort"
                /\ exit_code' = 1
                /\ out' = "error"
                /\ UNCHANGED <<template_df, date_columns, updated_df>>
    /\ UNCHANGED <<sheet, args, dates_in_forms, after_a, latest, written, output,
                   calc_in, calc_out>>

\* One iteration of "for _, form_row in forms_df.iterrows()".  The records of
\* forms_df are drawn as the loop consumes them, so forms_df is any sequence
\* of FormRecords, of any length; dates_in_forms gathers the labels of the
\* records consumed, which at the end of the loop is forms_df['date'].unique().
ApplyRecord(form_row) ==
    /\ pc = "phaseA"
    /\ LET student_id == form_student_id(form_row.student_id)
           date == convert_date_format(form_row.start)
           row_idx == FindStudentRow(updated_df, FIRST_STUDENT_ROW, student_id)
           result == calculate_attendance(form_row.completion, args.start, args.duration)
       IN  /\ dates_in_forms' = AddDate(dates_in_forms, date)
           /\ latest' = [latest EXCEPT ![<<student_id, date>>] = <<form_row.completion>>]
           /\ IF date \notin DOMAIN date_columns
              THEN /\ out' = "warn_date"
                   /\ UNCHANGED <<updated_df, pc, exit_code>>
              ELSE IF row_idx = VALUE_ERROR
              THEN /\ pc' = "abort"
                   /\ exit_code' = 1
                   /\ out' = "error"
                   /\ UNCHANGED updated_df
              ELSE IF row_idx = NOT_FOUND
              THEN /\ out' = "warn_student"
                   /\ UNCHANGED <<updated_df, pc, exit_code>>
              ELSE /\ updated_df' = WriteAttendance(updated_df, row_idx, date_columns[date],
                                                    result[1], result[2])
                   /\ out' = "updated"
                   /\ UNCHANGED <<pc, exit_code>>
    /\ UNCHANGED <<sheet, args, template_df, date_columns, after_a, written, output,
                   calc_in, calc_out>>

\* The records are exhausted: Phase B, and update_attendance_data returns.
MarkAbsences ==
    /\ pc = "phaseA"
    /\ after_a' = updated_df
    /\ updated_df' = MarkAbsent(updated_df, dates_in_forms, date_columns)
    /\ pc' = "save"
    /\ out' = "absent_marked"
    /\ UNCHANGED <<sheet, args, template_df, date_columns, dates_in_forms, latest,
                   written, output, exit_code, calc_in, calc_out>>

\* save_updated_template, and main's normal end.
Save ==
    /\ pc = "save"
    /\ written' = WrittenCells(sheet, updated_df)
    /\ output' = SavedSheet(sheet, updated_df)
    /\ pc' = "done"
    /\ exit_code' = 0
    /\ out' = "saved"
    /\ UNCHANGED <<sheet, args, template_df, date_columns, updated_df, dates_in_forms,
                   after_a, latest, calc_in, calc_out>>

Next ==
    \/ ReadTemplate
    \/ \E form_row \in FormRecords : ApplyRecord(form_row)
    \/ MarkAbsences
    \/ Save

Spec == Init /\ [][Next]_vars

-----------------------------------------------------------------------------
(* The calculator on its own: calculate_attendance over a grid of inputs *)

CalcHours == {0, 13, 14, 23}
CalcMinutes == {0, 1, 59}
CalcSeconds == {0, 1, 59}
CalcStarts == [h : {0, 13, 23}, m : {0, 59}]
CalcDurations == {1, 2, 60, 180}
CalcInputs ==
    {[t |-> (hh * MINUTES_PER_HOUR + mm) * SECONDS_PER_MINUTE + ss,
      start |-> st, duration |-> d] :
        hh \in CalcHours, mm \in CalcMinutes, ss \in CalcSeconds,
        st \in CalcStarts, d \in CalcDurations}

InitCalc ==
    /\ pc = "calc"
    /\ calc_in \in CalcInputs
    /\ calc_out = NoResult
    /\ sheet = NoTable
    /\ args = [start |-> calc_in.start, duration |-> calc_in.duration]
    /\ template_df = NoTable
    /\ date_columns = EmptyMap
    /\ updated_df = NoTable
    /\ dates_in_forms = <<>>
    /\ after_a = NoTable
    /\ latest = [key \in LatestKeys |-> NoTime]
    /\ out = ""
    /\ written = {}
    /\ output = NoTable
    /\ exit_code = -1

Calculate ==
    /\ pc = "calc"
    /\ calc_out' = calculate_attendance(calc_in.t, args.start, args.duration)
    /\ pc' = "calc_done"
    /\ UNCHANGED <<sheet, args, template_df, date_columns, updated_df, dates_in_forms,
                   after_a, latest, out, written, output, exit_code, calc_in>>

NextCalc == Calculate

SpecCalc == InitCalc /\ [][NextCalc]_vars

-----------------------------------------------------------------------------
(* Notions the properties share *)

\* update_attendance_data has returned.
Finished == pc \in {"save", "done"}
FormDates == {dates_in_forms[i] : i \in 1 .. Len(dates_in_forms)}
\* The date labels that are in the form records and in the DateColumnMap.
ProcessedDates == FormDates \cap DOMAIN date_columns
RosterRows(df) == {r \in DOMAIN df : r >= FIRST_STUDENT_ROW}

-----------------------------------------------------------------------------
(* C1 *)

CalcStart == (calc_in.start.h * 60 + calc_in.start.m) * 60
CalcEnd == CalcStart + calc_in.duration * 60

\* C1: with classStart the completion date at HH:MM:00 and classEnd =
\* classStart + duration minutes, calculate_attendance gives ('Y', duration)
\* for t <= classStart, ('N', 0) for t >= classEnd, and otherwise
\* ('Y', duration - k), k the whole minutes elapsed since classStart
\* (60k <= t - classStart < 60(k+1): seconds are truncated, not rounded).
C1_Calculator ==
    pc = "calc_done" =>
        /\ calc_in.t <= CalcStart => calc_out = <<"Y", calc_in.duration>>
        /\ calc_in.t >= CalcEnd => calc_out = <<"N", 0>>
        /\ (calc_in.t > CalcStart /\ calc_in.t < CalcEnd) =>
              \E k \in 0 .. calc_in.duration :
                  /\ 60 * k <= calc_in.t - CalcStart
                  /\ calc_in.t - CalcStart < 60 * (k + 1)
                  /\ calc_out = <<"Y", calc_in.duration - k>>

\* A submission 1 minute 59 seconds into the class: one minute is deducted.
C1_Witness ==
    /\ pc = "calc_done"
    /\ calc_in.t - CalcStart = 119
    /\ calc_in.t < CalcEnd
    /\ calc_out = <<"Y", calc_in.duration - 1>>

-----------------------------------------------------------------------------
(* C2 *)

\* C2: once update_attendance_data has returned, for every processed date,
\* every roster row (index 5 to the end) whose code cell for the date still
\* held "--" when Phase A ended has code 'N' and minutes 0 in the date's
\* column pair.
C2_AbsentMarked ==
    Finished =>
        \A d \in ProcessedDates : \A r \in RosterRows(updated_df) :
            after_a[r][date_columns[d].code_col] = SENTINEL =>
                /\ updated_df[r][date_columns[d].code_col] = Text("N")
                /\ updated_df[r][date_columns[d].minutes_col] = PyInt(0)

\* A processed date for which Phase A updated one row and left another row
\* at the sentinel.
C2_Witness ==
    /\ Finished
    /\ \E d \in ProcessedDates : \E r1, r2 \in RosterRows(updated_df) :
          /\ after_a[r1][date_columns[d].code_col] = SENTINEL
          /\ updated_df[r1][date_columns[d].code_col] = Text("N")
          /\ after_a[r2][date_columns[d].code_col] # template_df[r2][date_columns[d].code_col]

-----------------------------------------------------------------------------
(* C3 *)

\* C3: after both phases, no cell of a processed date's code column, in
\* rows 5 to the end, holds the sentinel "--".
C3_NoSentinelLeft ==
    Finished =>
        \A d \in ProcessedDates : \A r \in RosterRows(updated_df) :
            updated_df[r][date_columns[d].code_col] # SENTINEL

\* Two processed dates, each with a code column that held the sentinel in
\* every roster row of the template.
C3_Witness ==
    /\ Finished
    /\ Cardinality(ProcessedDates) = 2
    /\ \A d \in ProcessedDates : \A r \in RosterRows(template_df) :
          template_df[r][date_columns[d].code_col] = SENTINEL

-----------------------------------------------------------------------------
(* C8 *)

\* C8: Phase B applied again to the table update_attendance_data returned,
\* for the same form dates and DateColumnMap, changes no cell.
C8_PhaseBIdempotent ==
    Finished => MarkAbsent(updated_df, dates_in_forms, date_columns) = updated_df

\* Phase B marked at least two rows of one processed date.
C8_Witness ==
    /\ Finished
    /\ \E d \in ProcessedDates : \E r1, r2 \in RosterRows(updated_df) :
          /\ r1 # r2
          /\ after_a[r1][date_columns[d].code_col] = SENTINEL
          /\ after_a[r2][date_columns[d].code_col] = SENTINEL
          /\ updated_df[r1][date_columns[d].minutes_col] = PyInt(0)
          /\ updated_df[r2][date_columns[d].minutes_col] = PyInt(0)

-----------------------------------------------------------------------------
(* C4 *)

\* C4: the table update_attendance_data returns has the shape of the
\* template table and differs from it only in rows >= 5, in the code or the
\* minutes column of a processed date; the template table is still the
\* table that was read.
C4_Frame ==
    Finished =>
        /\ template_df = read_excel(sheet)
        /\ DOMAIN updated_df = DOMAIN template_df
        /\ \A r \in DOMAIN updated_df : \A c \in Cols :
              updated_df[r][c] # template_df[r][c] =>
                  /\ r >= FIRST_STUDENT_ROW
                  /\ \E d \in ProcessedDates :
                        c \in {date_columns[d].code_col, date_columns[d].minutes_col}

\* The table changed, and a date of the template that no form record names
\* kept a sentinel.
C4_Witness ==
    /\ Finished
    /\ updated_df # template_df
    /\ \E d \in (DOMAIN date_columns) \ FormDates : \E r \in RosterRows(updated_df) :
          updated_df[r][date_columns[d].code_col] = SENTINEL

-----------------------------------------------------------------------------
(* C9, C10 *)

FormCanonIds == {form_student_id(s) : s \in FormStudentIds}
ConsumedIds == {key[1] : key \in {k \in LatestKeys : latest[k] # NoTime}}

\* Row r is the first roster row of df whose identifier is id.
IsFirstWithId(df, r, id) ==
    /\ r \in RosterRows(df)
    /\ df[r][ID_COL] = [k |-> "int", v |-> id]
    /\ \A q \in RosterRows(df) : q < r => df[q][ID_COL] # [k |-> "int", v |-> id]

\* C9: Phase A writes only into the first roster row that holds the
\* identifier of a form record; a later row with the same identifier is
\* never written by Phase A.
C9_FirstMatchOnly ==
    /\ pc = "phaseA" =>
          \A r \in RosterRows(updated_df) :
              updated_df[r] # template_df[r] =>
                  \E id \in ConsumedIds : IsFirstWithId(template_df, r, id)
    /\ Finished =>
          \A r \in RosterRows(after_a) :
              after_a[r] # template_df[r] =>
                  \E id \in ConsumedIds : IsFirstWithId(template_df, r, id)

\* Two roster rows hold the same identifier; a record updated the first
\* and the second is as it was read.
C9_Witness ==
    /\ pc = "phaseA"
    /\ out = "updated"
    /\ \E r1, r2 \in RosterRows(updated_df) :
          /\ r1 < r2
          /\ updated_df[r1][ID_COL].k = "int"
          /\ updated_df[r1][ID_COL] = updated_df[r2][ID_COL]
          /\ updated_df[r1] # template_df[r1]
          /\ updated_df[r2] = template_df[r2]

\* C10: once update_attendance_data has returned, for every (student,
\* processed date) with a form record, the first roster row of the student
\* holds calculate_attendance of the last such record, as Phase A left it:
\* Phase B overwrote nothing Phase A wrote.
C10_LastSubmissionStands ==
    Finished =>
        \A key \in LatestKeys :
            (latest[key] # NoTime /\ key[2] \in DOMAIN date_columns) =>
                \A r \in RosterRows(updated_df) :
                    IsFirstWithId(template_df, r, key[1]) =>
                        LET res == calculate_attendance(latest[key][1], args.start,
                                                        args.duration)
                            cols == date_columns[key[2]]
                        IN  /\ after_a[r][cols.code_col] = Text(res[1])
                            /\ after_a[r][cols.minutes_col] = PyInt(res[2])
                            /\ updated_df[r][cols.code_col] = after_a[r][cols.code_col]
                            /\ updated_df[r][cols.minutes_col] = after_a[r][cols.minutes_col]

\* A student whose last submission came after the class: Phase A wrote
\* ('N', 0) over a sentinel, and Phase B marked another row absent.
C10_Witness ==
    /\ Finished
    /\ \E key \in LatestKeys : \E r, q \in RosterRows(updated_df) :
          /\ latest[key] # NoTime
          /\ key[2] \in DOMAIN date_columns
          /\ IsFirstWithId(template_df, r, key[1])
          /\ template_df[r][date_columns[key[2]].code_col] = SENTINEL
          /\ calculate_attendance(latest[key][1], args.start, args.duration) = <<"N", 0>>
          /\ after_a[r][date_columns[key[2]].code_col] = Text("N")
          /\ after_a[q][date_columns[key[2]].code_col] = SENTINEL
          /\ updated_df[q][date_columns[key[2]].code_col] = Text("N")

-----------------------------------------------------------------------------
(* C5 *)

\* C5: save_updated_template writes a cell iff its updated value is not
\* empty and the position is outside the original sheet or str() of the
\* updated value differs from str() of the original value; and so, when the
\* updated table is the table as loaded from the file, nothing is written
\* and the output has the content of the original.
C5_SelectiveWrite ==
    pc = "done" =>
        /\ \A r \in DOMAIN updated_df : \A c \in Cols :
              <<r, c>> \in written <=>
                  /\ updated_df[r][c] # NaN
                  /\ \/ ~(r \in DOMAIN sheet /\ c \in DOMAIN sheet[r])
                     \/ Str(sheet[r][c]) # Str(updated_df[r][c])
        /\ updated_df = read_excel(sheet) => (written = {} /\ output = sheet)

-----------------------------------------------------------------------------
(* C6 *)

HasHeaderRows(sh) == DATE_ROW \in DOMAIN sh /\ SUBHEADER_ROW \in DOMAIN sh
RosterHasId(df, id) ==
    \E r \in RosterRows(df) : df[r][ID_COL] = [k |-> "int", v |-> id]

\* C6: a form record whose date is not in the DateColumnMap or whose
\* student matches no roster row only draws a warning: no cell changes, no
\* error is raised, the run goes on and never takes the abort path.  Stated
\* for the runs in which no roster row holds the identifier of any form
\* record, so that every record is such a mismatch.
C6_MismatchOnlyWarns ==
    (HasHeaderRows(sheet) /\ \A id \in FormCanonIds : ~RosterHasId(read_excel(sheet), id)) =>
        /\ pc # "abort"
        /\ pc = "phaseA" =>
              /\ updated_df = template_df
              /\ out \in {"found_dates", "warn_date", "warn_student"}

-----------------------------------------------------------------------------
(* C7 *)

\* Rows 3 and 4 exist and no cell of row 3 is a date label.
HeaderHasNoDate(sh) ==
    /\ HasHeaderRows(sh)
    /\ \A c \in Cols : ~(sh[DATE_ROW][c].k = "str" /\ sh[DATE_ROW][c].v \in DateLabels)

====
